---------------------------- MODULE Spec2Model ----------------------------
(***************************************************************************)
(* Feasible coalition families, restricted games and the restricted        *)
(* Shapley value of shapleypy (packages restricted/ and restrected/).      *)
(*                                                                         *)
(* A Coalition is modelled by the set of its players; the empty coalition  *)
(* is {}.  A call that raises leaves the outcome "ValueError" in `last`.   *)
(*                                                                         *)
(* Coalition, Game and the constants are not part of the sources modelled  *)
(* here; they are taken as the design document describes them.  So is the  *)
(* RestrictedGame that shapley_feasible receives (restricted.rc_game): a   *)
(* game and a family of equal player counts.  shapley_feasible is modelled *)
(* in its exact mode (monte_carlo is None).                                *)
(*                                                                         *)
(* Specifications:                                                         *)
(*   Spec         a family under any sequence of add and remove            *)
(*   SpecOneCall  a single add on any family the constructor builds        *)
(*   SpecOneStep  a single add or remove on any such family                *)
(*   SpecGame     RestrictedGame of restrected/game.py                     *)
(*   SpecShapley  shapley_feasible on every family and game                *)
(*   SpecLoader   _feasible_from_permission_data                           *)
(***************************************************************************)
EXTENDS Integers, FiniteSets, Sequences, TLC

VARIABLES
    n,            \* FeasibleFamily._n
    F,            \* FeasibleFamily._F
    constructed,  \* whether FeasibleFamily.__init__ returned an object
    pre,          \* F as it was when the last call started
    last,         \* the last call: its name, arguments and outcome
    game,         \* the base Game: number_of_players and the values
    sh,           \* shapley_feasible: the position and locals of the run
    load          \* _feasible_from_permission_data: its input and progress

vars == <<n, F, constructed, pre, last, game, sh, load>>

\* Largest player count of a family driven through sequences of calls.
MaxPlayers == 2

\* Largest number of coalitions handed to the constructor before a sequence.
MaxInitial == 2

\* Largest player count of the games and families paired in a RestrictedGame.
GamePlayers == 2

\* Largest player count of a restricted game whose Shapley value is computed.
ShapleyPlayers == 2

\* Largest player count of a permission structure handed to the loader.
LoaderPlayers == 3

\* Largest player count of a family a single add call is applied to.
CallPlayers == 3

\* Largest number of coalitions handed to the constructor before that call.
CallInitial == 4

\* shapleypy.constants
MAXIMUM_NUMBER_OF_PLAYERS == 32
MINIMUM_NUMBER_OF_PLAYERS == 1

EMPTY_COALITION == {}

\* Coalition descriptions callers pass in for families of up to m players:
\* player -1 is negative, player m is >= n for every such family.
InputCoalitions(m) == SUBSET (-1 .. m)

\* Player counts callers pass to the constructor.
InputPlayerCounts(m) ==
    {MINIMUM_NUMBER_OF_PLAYERS - 1, MAXIMUM_NUMBER_OF_PLAYERS + 1} \cup (1 .. m)

\* The values a base game records for a coalition.
GameValues == {0, 1}

\* The state of the parts a specification does not drive.
Idle == "idle"

(***************************************************************************)
(* Coalition                                                               *)
(***************************************************************************)

\* Coalition.from_players accepts players of 0 .. MAXIMUM_NUMBER_OF_PLAYERS-1.
CoalitionOK(S) == \A i \in S : i >= 0 /\ i < MAXIMUM_NUMBER_OF_PLAYERS

\* Coalition.__add__: the union of two coalitions.
Union2(A, B) == A \cup B

\* Coalition.all_subcoalitions: every subcoalition, proper and improper,
\* enumerated as the players of C kept by each selection T.
all_subcoalitions(C) == {C \cap T : T \in SUBSET C}

(***************************************************************************)
(* FeasibleFamily                                                          *)
(***************************************************************************)

\* The range loop with its upper comparison off by one.
OutOfRange_OffByOne(C, m) == \E i \in C : i > m \/ i < 0

\* The range loop of __init__ and add: some player of C is outside 0..m-1.
OutOfRange(C, m) == \E i \in C : i >= m \/ i < 0

\* One pass of _close_under_union: the missing unions of pairs of members.
to_add(G) == {U \in {Union2(A, B) : A \in G, B \in G} : U \notin G}

\* _close_under_union with an `if` in place of the `while`: a single pass.
close_under_union_OnePass(G) == G \cup to_add(G)

\* _close_under_union: passes repeated while a pass inserts something.
RECURSIVE close_under_union(_)
close_under_union(G) ==
    IF to_add(G) # {} THEN close_under_union(G \cup to_add(G)) ELSE G

\* is_union_closed: every pair A, B of L with B not before A has its union
\* in F; the union is symmetric, so the order of L does not matter.
is_union_closed(G) == \A A \in G : \A B \in G : Union2(A, B) \in G

is_hereditary(G) == \A C \in G : \A T \in all_subcoalitions(C) : T \in G

is_accessible(G) ==
    \A C \in G : C # EMPTY_COALITION => \E i \in C : (C \ {i}) \in G

\* add with the heredity loop nested under `if C not in self._F`.
AddResult_NewOnly(G, C, enforce_heredity, enforce_union_closed) ==
    LET G2 == IF C \notin G
              THEN IF enforce_heredity
                   THEN G \cup {C} \cup all_subcoalitions(C)
                   ELSE G \cup {C}
              ELSE G
    IN  IF enforce_union_closed THEN close_under_union(G2) ELSE G2

\* add with the union closure run before the heredity loop.
AddResult_CloseFirst(G, C, enforce_heredity, enforce_union_closed) ==
    LET G1 == IF C \notin G THEN G \cup {C} ELSE G
        G2 == IF enforce_union_closed THEN close_under_union(G1) ELSE G1
    IN  IF enforce_heredity THEN G2 \cup all_subcoalitions(C) ELSE G2

\* The family after add(C, ...) passed its range check.
AddResult(G, C, enforce_heredity, enforce_union_closed) ==
    LET G1 == IF C \notin G THEN G \cup {C} ELSE G
        G2 == IF enforce_heredity THEN G1 \cup all_subcoalitions(C) ELSE G1
    IN  IF enforce_union_closed THEN close_under_union(G2) ELSE G2

\* remove without the guard on the empty coalition.
RemoveResult_Unguarded(G, C) == G \ {C}

\* The family after remove(C).
RemoveResult(G, C) == IF C # EMPTY_COALITION THEN G \ {C} ELSE G

\* __init__: the set built from the coalitions given, with the empty one.
InitFamily(coalitions) == coalitions \cup {EMPTY_COALITION}

\* __init__ raises: n_players out of bounds, or a coalition out of range.
InitRaises(n_players, coalitions) ==
    \/ n_players > MAXIMUM_NUMBER_OF_PLAYERS
    \/ n_players < MINIMUM_NUMBER_OF_PLAYERS
    \/ \E C \in InitFamily(coalitions) : OutOfRange(C, n_players)

Call(op, C, eh, eu, outcome) ==
    [op |-> op, C |-> C, eh |-> eh, eu |-> eu, outcome |-> outcome]

\* add raises: the coercion of S fails, or the range loop finds a player.
AddRaises(S, m) == ~CoalitionOK(S) \/ OutOfRange(S, m)

\* FeasibleFamily(n_players, coalitions)
Construct(n_players, coalitions) ==
    /\ pre = {}
    /\ IF InitRaises(n_players, coalitions)
       THEN /\ constructed = FALSE
            /\ n = 0
            /\ F = {}
            /\ last = Call("__init__", {}, FALSE, FALSE, "ValueError")
       ELSE /\ constructed = TRUE
            /\ n = n_players
            /\ F = InitFamily(coalitions)
            /\ last = Call("__init__", {}, FALSE, FALSE, "ok")

Init ==
    /\ \E n_players \in InputPlayerCounts(MaxPlayers) :
       \E coalitions \in {cs \in SUBSET {C \in InputCoalitions(MaxPlayers) :
                                            CoalitionOK(C)} :
                             Cardinality(cs) <= MaxInitial} :
           Construct(n_players, coalitions)
    /\ game = Idle /\ sh = Idle /\ load = Idle

\* FeasibleFamily.add(S, enforce_heredity, enforce_union_closed)
Add(S, enforce_heredity, enforce_union_closed) ==
    /\ constructed
    /\ pre' = F
    /\ UNCHANGED <<n, constructed, game, sh, load>>
    /\ IF AddRaises(S, n)
       THEN /\ F' = F
            /\ last' = Call("add", S, enforce_heredity, enforce_union_closed,
                            "ValueError")
       ELSE /\ F' = AddResult(F, S, enforce_heredity, enforce_union_closed)
            /\ last' = Call("add", S, enforce_heredity, enforce_union_closed,
                            "ok")

\* FeasibleFamily.remove(S)
Remove(S) ==
    /\ constructed
    /\ pre' = F
    /\ UNCHANGED <<n, constructed, game, sh, load>>
    /\ IF ~CoalitionOK(S)
       THEN /\ F' = F
            /\ last' = Call("remove", S, FALSE, FALSE, "ValueError")
       ELSE /\ F' = RemoveResult(F, S)
            /\ last' = Call("remove", S, FALSE, FALSE, "ok")

Next ==
    \/ \E S \in InputCoalitions(MaxPlayers) :
       \E eh \in BOOLEAN : \E eu \in BOOLEAN : Add(S, eh, eu)
    \/ \E S \in InputCoalitions(MaxPlayers) : Remove(S)

\* A family is constructed and driven through any sequence of add and remove.
Spec == Init /\ [][Next]_vars

\* The families of up to CallPlayers players built from up to CallInitial
\* coalitions.
InitOneCall ==
    /\ \E n_players \in 1 .. CallPlayers :
       \E coalitions \in {cs \in SUBSET all_subcoalitions(0 .. n_players - 1) :
                             Cardinality(cs) <= CallInitial} :
           Construct(n_players, coalitions)
    /\ game = Idle /\ sh = Idle /\ load = Idle

\* One add on the family just constructed.
NextOneCall ==
    \E S \in InputCoalitions(CallPlayers) :
    \E eh \in BOOLEAN : \E eu \in BOOLEAN :
        /\ last.op = "__init__"
        /\ Add(S, eh, eu)

\* Any constructible family, then a single add with any arguments.
SpecOneCall == InitOneCall /\ [][NextOneCall]_vars

\* One add or one remove on the family just constructed.
NextOneStep ==
    \/ \E S \in InputCoalitions(CallPlayers) :
       \E eh \in BOOLEAN : \E eu \in BOOLEAN :
           /\ last.op = "__init__"
           /\ Add(S, eh, eu)
    \/ \E S \in InputCoalitions(CallPlayers) :
           /\ last.op = "__init__"
           /\ Remove(S)

\* Any constructible family, then a single add or remove with any arguments.
SpecOneStep == InitOneCall /\ [][NextOneStep]_vars

(***************************************************************************)
(* Game (the base game) and RestrictedGame                                 *)
(***************************************************************************)

\* A Python int, and the bound method an attribute access on a method gives.
PyInt(i) == [type |-> "int", value |-> i]
PyBoundMethod(name, self) == [type |-> "method", value |-> <<name, self>>]

\* a != b: values of unrelated types are never equal.
PyNe(a, b) == IF a.type = b.type THEN a.value # b.value ELSE TRUE

\* Game(number_of_players) with a value recorded for every coalition.
Games(m) ==
    {[number_of_players |-> g, values |-> vals] :
        g \in 1 .. m, vals \in UNION {[all_subcoalitions(0 .. k - 1) -> GameValues] :
                                         k \in 1 .. m}}

GameOK(g) == DOMAIN g.values = all_subcoalitions(0 .. g.number_of_players - 1)

\* base_game.number_of_players: an attribute holding an int.
number_of_players == PyInt(game.number_of_players)

\* feasible.n: FeasibleFamily.n is a plain method, so the attribute access
\* gives the bound method, not the player count.
feasible_n == PyBoundMethod("FeasibleFamily.n", n)

\* FeasibleFamily.is_feasible
is_feasible(C) == C \in F

\* RestrictedGame.__init__ raises.
RestrictedGameRaises == PyNe(number_of_players, feasible_n)

GameCall(op, C, value, outcome, result, before) ==
    [op |-> op, C |-> C, value |-> value, outcome |-> outcome,
     result |-> result, before |-> before]

NoResult == "none"

\* RestrictedGame(base_game, feasible)
NewRestrictedGame ==
    /\ constructed
    /\ UNCHANGED <<n, F, constructed, pre, game, sh, load>>
    /\ last' = GameCall("RestrictedGame", {}, 0,
                        IF RestrictedGameRaises THEN "ValueError" ELSE "ok",
                        NoResult, game.values)

\* RestrictedGame(base_game, feasible).get_value(S)
GetValue(S) ==
    /\ constructed
    /\ UNCHANGED <<n, F, constructed, pre, game, sh, load>>
    /\ last' = IF RestrictedGameRaises \/ ~is_feasible(S)
               THEN GameCall("get_value", S, 0, "ValueError", NoResult,
                             game.values)
               ELSE GameCall("get_value", S, 0, "ok", game.values[S],
                             game.values)

\* RestrictedGame(base_game, feasible).set_value(S, value)
SetValue(S, value) ==
    /\ constructed
    /\ UNCHANGED <<n, F, constructed, pre, sh, load>>
    /\ IF RestrictedGameRaises \/ ~is_feasible(S)
       THEN /\ game' = game
            /\ last' = GameCall("set_value", S, value, "ValueError", NoResult,
                                game.values)
       ELSE /\ game' = [game EXCEPT !.values[S] = value]
            /\ last' = GameCall("set_value", S, value, "ok", NoResult,
                                game.values)

\* A family and a base game, each of up to GamePlayers players.
InitGame ==
    /\ \E n_players \in 1 .. GamePlayers :
       \E coalitions \in SUBSET all_subcoalitions(0 .. n_players - 1) :
           Construct(n_players, coalitions)
    /\ game \in {g \in Games(GamePlayers) : GameOK(g)}
    /\ sh = Idle /\ load = Idle

NextGame ==
    \/ NewRestrictedGame
    \/ \E S \in all_subcoalitions(0 .. GamePlayers - 1) : GetValue(S)
    \/ \E S \in all_subcoalitions(0 .. GamePlayers - 1) :
       \E value \in GameValues : SetValue(S, value)

\* A game and a family are paired, and values are read and written through
\* the pairing.
SpecGame == InitGame /\ [][NextGame]_vars

(***************************************************************************)
(* shapley_feasible, exact mode (monte_carlo is None)                      *)
(***************************************************************************)

RECURSIVE factorial(_)
factorial(m) == IF m <= 1 THEN 1 ELSE m * factorial(m - 1)

\* The orderings of players 0 .. m-1, as sequences.
Orderings(m) ==
    {p \in [1 .. m -> 0 .. m - 1] : \A i \in 1 .. m : \A j \in 1 .. m :
                                        i # j => p[i] # p[j]}

LexLess(p, q) ==
    \E i \in DOMAIN p : p[i] < q[i] /\ \A j \in 1 .. i - 1 : p[j] = q[j]

\* itertools.permutations(players): the k-th ordering, lexicographically.
Permutation(m, k) ==
    CHOOSE p \in Orderings(m) :
        Cardinality({q \in Orderings(m) : LexLess(q, p)}) = k

\* rg.base_game.get_value(C)
get_value(C) == game.values[C]

\* The marginal contribution without the prefix's value.
marginal_contrib_NoPrefix(new_coalition, prefix) == get_value(new_coalition)

\* marginal_contrib of new_coalition over prefix.
marginal_contrib(new_coalition, prefix) ==
    get_value(new_coalition) - get_value(prefix)

\* The walk forming a contribution at every step.
contributes_Always(new_coalition) == TRUE

\* The walk forms a contribution: `if rg.is_feasible(new_coalition)`.
contributes(new_coalition) == is_feasible(new_coalition)

\* The prefix kept when the candidate is rejected.
next_prefix_IfFeasible(prefix, new_coalition) ==
    IF is_feasible(new_coalition) THEN new_coalition ELSE prefix

\* `prefix = new_coalition`, outside the `if`.
next_prefix(prefix, new_coalition) == new_coalition

\* The record of a walk that has not taken a step: no player.
NoStep ==
    [player |-> -1, prefix |-> {}, new_coalition |-> {}, looked_up |-> TRUE,
     award |-> 0, phi_before |-> <<>>, walked |-> {}, previous_taken |-> TRUE]

\* The locals of shapley_feasible before the first permutation.
ShapleyStart(m) ==
    [pc |-> "loop", k |-> 0, order |-> <<>>, pos |-> 0, prefix |-> {},
     phi |-> [i \in 0 .. m - 1 |-> 0], step |-> NoStep, result |-> NoResult]

\* A restricted game of up to ShapleyPlayers players: its family, and a base
\* game of as many players with a value recorded for every coalition.
InitShapley ==
    /\ \E n_players \in 1 .. ShapleyPlayers :
       \E coalitions \in SUBSET all_subcoalitions(0 .. n_players - 1) :
           /\ Construct(n_players, coalitions)
           /\ game \in {g \in Games(ShapleyPlayers) :
                           GameOK(g) /\ g.number_of_players = n_players}
           /\ sh = ShapleyStart(n_players)
    /\ load = Idle

\* `for permutation in itertools.permutations(players)`: the next ordering,
\* and the first line of process_single_permutation.
NextPermutation ==
    /\ sh.pc = "loop"
    /\ sh.k < factorial(game.number_of_players)
    /\ sh' = [sh EXCEPT !.pc = "walk",
                        !.order = Permutation(game.number_of_players, sh.k),
                        !.pos = 1,
                        !.prefix = {},
                        !.step = NoStep]
    /\ UNCHANGED <<n, F, constructed, pre, last, game, load>>

\* One iteration of `for player in order`.
Step ==
    /\ sh.pc = "walk"
    /\ LET player == sh.order[sh.pos]
           new_coalition == Union2(sh.prefix, {player})
           taken == contributes(new_coalition)
           award == IF taken THEN marginal_contrib(new_coalition, sh.prefix)
                    ELSE 0
           at_end == sh.pos = Len(sh.order)
       IN  sh' = [sh EXCEPT
                    !.phi[player] = @ + award,
                    !.prefix = next_prefix(sh.prefix, new_coalition),
                    !.pos = @ + 1,
                    !.pc = IF at_end THEN "loop" ELSE "walk",
                    !.k = IF at_end THEN @ + 1 ELSE @,
                    !.step = [player |-> player,
                              prefix |-> sh.prefix,
                              new_coalition |-> new_coalition,
                              looked_up |-> taken,
                              award |-> award,
                              phi_before |-> sh.phi,
                              walked |-> {sh.order[j] : j \in 1 .. sh.pos - 1},
                              previous_taken |-> sh.step.looked_up]]
    /\ UNCHANGED <<n, F, constructed, pre, last, game, load>>

\* `denom = math.factorial(n)` and the returned list, each value kept as the
\* pair <<total, denom>>.
Return ==
    /\ sh.pc = "loop"
    /\ sh.k = factorial(game.number_of_players)
    /\ sh' = [sh EXCEPT
                !.pc = "done",
                !.result = [i \in DOMAIN sh.phi |->
                               <<sh.phi[i], factorial(game.number_of_players)>>]]
    /\ UNCHANGED <<n, F, constructed, pre, last, game, load>>

NextShapley == NextPermutation \/ Step \/ Return

SpecShapley == InitShapley /\ [][NextShapley]_vars

(***************************************************************************)
(* loaders._feasible_from_permission_data                                  *)
(***************************************************************************)

\* The permission structures over players 0 .. m-1: a dict from some of the
\* players to their lists of predecessors.
Permissions(m) ==
    UNION {[K -> SUBSET (0 .. m - 1)] : K \in SUBSET (0 .. m - 1)}

\* preds after `preds.setdefault(i, set())` for every player.
Preds(permission, m) ==
    [i \in 0 .. m - 1 |->
        IF i \in DOMAIN permission THEN permission[i] ELSE {}]

\* dfs(idx, taken), with order = list(range(n)): the coalitions it adds to
\* res.
RECURSIVE dfs(_, _, _, _)
dfs(idx, taken, preds, m) ==
    IF idx = m
    THEN {taken}
    ELSE dfs(idx + 1, taken, preds, m)
           \cup (IF preds[idx] \subseteq taken
                 THEN dfs(idx + 1, taken \cup {idx}, preds, m)
                 ELSE {})

\* res as handed to FeasibleFamily(n, res).
PermissionCoalitions(permission, m) ==
    dfs(0, {}, Preds(permission, m), m) \cup {EMPTY_COALITION}

\* A player count and a permission structure.
InitLoader ==
    /\ \E m \in 1 .. LoaderPlayers : \E permission \in Permissions(m) :
           load = [pc |-> "call", n |-> m, permission |-> permission]
    /\ n = 0 /\ F = {} /\ constructed = FALSE /\ pre = {}
    /\ last = Call("none", {}, FALSE, FALSE, "ok")
    /\ game = Idle /\ sh = Idle

\* _feasible_from_permission_data(n, permission)
FeasibleFromPermission ==
    /\ load.pc = "call"
    /\ LET res == PermissionCoalitions(load.permission, load.n)
       IN  IF InitRaises(load.n, res)
           THEN /\ UNCHANGED <<n, F, constructed>>
                /\ last' = Call("__init__", {}, FALSE, FALSE, "ValueError")
           ELSE /\ n' = load.n
                /\ F' = InitFamily(res)
                /\ constructed' = TRUE
                /\ last' = Call("__init__", {}, FALSE, FALSE, "ok")
    /\ load' = [load EXCEPT !.pc = "done"]
    /\ UNCHANGED <<pre, game, sh>>

NextLoader == FeasibleFromPermission

SpecLoader == InitLoader /\ [][NextLoader]_vars

(***************************************************************************)
(* Properties of FeasibleFamily                                            *)
(***************************************************************************)

\* Some player of S lies outside {0, ..., n-1}.
HasForeignPlayer(S) == \E i \in S : i >= n \/ i < 0

\* C1: in every constructed family, after any sequence of add and remove
\* calls, the empty coalition is a member of F, and a remove of the empty
\* coalition leaves F as it was.
C1_EmptyAlwaysMember ==
    constructed =>
        /\ EMPTY_COALITION \in F
        /\ (last.op = "remove" /\ last.C = EMPTY_COALITION) => F = pre

\* C1 happens: the empty coalition was removed from a family with other
\* members after an earlier add.
C1_Witness ==
    /\ constructed
    /\ last.op = "remove" /\ last.C = EMPTY_COALITION /\ last.outcome = "ok"
    /\ Cardinality(pre) > MaxInitial + 1

\* C2: add of a coalition with a player >= n or < 0 raises ValueError for
\* every combination of the two flags and leaves F as it was.
C2_FailedAddChangesNothing ==
    (last.op = "add" /\ HasForeignPlayer(last.C)) =>
        /\ last.outcome = "ValueError"
        /\ F = pre

\* C2 happens: a rejected add with both flags set whose coalition has an
\* in-range subcoalition that is not a member.
C2_Witness ==
    /\ last.op = "add" /\ last.eh /\ last.eu
    /\ last.outcome = "ValueError"
    /\ n \in last.C
    /\ \E T \in SUBSET last.C : T \subseteq 0 .. n - 1 /\ T \notin F

\* C3: after add(S, enforce_heredity = true) of an in-range S, S and every
\* subcoalition of S are members, and so is every earlier member.
C3_HeredityOfAdded ==
    (last.op = "add" /\ last.eh /\ ~HasForeignPlayer(last.C)) =>
        /\ last.outcome = "ok"
        /\ \A T \in SUBSET last.C : T \in F
        /\ pre \subseteq F

\* C3 happens: the added coalition was a member already, one of its
\* subcoalitions was not, and the family held a coalition outside S.
C3_Witness ==
    /\ last.op = "add" /\ last.eh /\ ~last.eu /\ last.outcome = "ok"
    /\ last.C \in pre
    /\ \E T \in SUBSET last.C : T \notin pre
    /\ \E A \in pre : ~(A \subseteq last.C)

\* C4: add(S, enforce_union_closed = true) of an in-range S returns, the
\* union of every two members is then a member, and is_union_closed() is
\* true.
C4_UnionClosedAfterAdd ==
    (last.op = "add" /\ last.eu /\ ~HasForeignPlayer(last.C)) =>
        /\ last.outcome = "ok"
        /\ \A A \in F : \A B \in F : (A \cup B) \in F
        /\ is_union_closed(F)

\* C4 happens: the closure needed a second inserting pass.
C4_Witness ==
    /\ last.op = "add" /\ last.eu /\ last.outcome = "ok"
    /\ LET G0 == AddResult(pre, last.C, last.eh, FALSE)
       IN  /\ to_add(G0) # {}
           /\ to_add(G0 \cup to_add(G0)) # {}

\* C11: when is_hereditary() holds before add(S, enforce_heredity = true,
\* enforce_union_closed = b) of an in-range S, the call returns and
\* is_hereditary() holds after it, for b false and b true.  remove may break
\* heredity and does not restore it: it inserts nothing, so a family that
\* keeps a proper supercoalition of the removed coalition is not hereditary.
C11_AddKeepsHeredity ==
    /\ (/\ last.op = "add" /\ last.eh /\ ~HasForeignPlayer(last.C)
        /\ is_hereditary(pre)) =>
            /\ last.outcome = "ok"
            /\ is_hereditary(F)
    /\ (last.op = "remove" /\ last.outcome = "ok") =>
            /\ F \subseteq pre
            /\ (/\ last.C # EMPTY_COALITION
                /\ \E A \in F : last.C \subseteq A /\ A # last.C) =>
                    ~is_hereditary(F)

\* C11 happens: an add with both flags set on a hereditary family with
\* members besides the empty coalition, where the union closure inserted
\* coalitions that are neither earlier members nor subcoalitions of S.
C11_Witness ==
    /\ last.op = "add" /\ last.eh /\ last.eu /\ last.outcome = "ok"
    /\ is_hereditary(pre) /\ pre # {EMPTY_COALITION}
    /\ last.C \notin pre
    /\ F # AddResult(pre, last.C, TRUE, FALSE)
    /\ is_hereditary(F)

\* The remove half of C11 happens: a remove turned a hereditary family
\* into one that is not.
C11_RemoveBreaksHeredity ==
    /\ last.op = "remove" /\ last.outcome = "ok"
    /\ is_hereditary(pre)
    /\ ~is_hereditary(F)

(***************************************************************************)
(* Properties of RestrictedGame                                            *)
(***************************************************************************)

\* C5: RestrictedGame(base_game, feasible) raises ValueError when the two
\* player counts differ, and returns the pairing when they are equal.
C5_ConstructionChecksPlayerCount ==
    last.op = "RestrictedGame" =>
        IF game.number_of_players # n
        THEN last.outcome = "ValueError"
        ELSE last.outcome = "ok"

\* C6: on the RestrictedGame of a game and a family of equal player counts,
\* get_value and set_value of a coalition outside F raise ValueError and
\* leave the values as they were; for a coalition of F get_value returns the
\* game's value and set_value stores the value for that coalition alone.
C6_ValueAccessGatedByFeasibility ==
    (last.op \in {"get_value", "set_value"} /\ game.number_of_players = n) =>
        IF last.C \notin F
        THEN last.outcome = "ValueError" /\ game.values = last.before
        ELSE /\ last.outcome = "ok"
             /\ last.op = "get_value" =>
                    /\ last.result = last.before[last.C]
                    /\ game.values = last.before
             /\ last.op = "set_value" =>
                    game.values = [last.before EXCEPT ![last.C] = last.value]

(***************************************************************************)
(* Properties of shapley_feasible                                          *)
(***************************************************************************)

RECURSIVE SumUpTo(_, _)
SumUpTo(f, i) == IF i < 0 THEN 0 ELSE f[i] + SumUpTo(f, i - 1)

RECURSIVE SumOver(_, _)
SumOver(f, S) ==
    IF S = {} THEN 0
    ELSE LET x == CHOOSE y \in S : TRUE IN f[x] + SumOver(f, S \ {x})

GrandCoalition == 0 .. n - 1

PowerSet == {GrandCoalition \cap T : T \in SUBSET GrandCoalition}

\* What ordering p awards player i: the marginal value of the coalition i
\* completes over the players before i, when that coalition is in F.
AwardIn(p, i) ==
    LET j == CHOOSE t \in DOMAIN p : p[t] = i
        before == {p[t] : t \in 1 .. j - 1}
    IN  IF (before \cup {i}) \in F
        THEN game.values[before \cup {i}] - game.values[before]
        ELSE 0

TotalAward(i) ==
    SumOver([p \in Orderings(n) |-> AwardIn(p, i)], Orderings(n))

\* C7 as stated: with F the full power set, the exact-mode totals sum to n!
\* times the value of the grand coalition.
C7_SumIsGrandValue ==
    (sh.pc = "done" /\ F = PowerSet) =>
        SumUpTo(sh.phi, n - 1) = factorial(n) * game.values[GrandCoalition]

\* C7 amended: with F the full power set, the exact-mode totals sum to n!
\* times the value of the grand coalition less the value of the empty
\* coalition, and each returned value is its total over n!.
C7_SumIsGrandLessEmpty ==
    (sh.pc = "done" /\ F = PowerSet) =>
        /\ SumUpTo(sh.phi, n - 1) =
               factorial(n) * (game.values[GrandCoalition]
                                 - game.values[EMPTY_COALITION])
        /\ \A i \in GrandCoalition : sh.result[i] = <<sh.phi[i], factorial(n)>>

\* C7 happens: a finished run over the power set of ShapleyPlayers players
\* on a game whose empty coalition has a value other than 0.
C7_Witness ==
    /\ sh.pc = "done" /\ F = PowerSet /\ n = ShapleyPlayers
    /\ game.values[EMPTY_COALITION] # 0
    /\ game.values[GrandCoalition] # game.values[EMPTY_COALITION]

\* C8: the step that adds player i to the prefix awards i the value of the
\* candidate less the value of the prefix when the candidate is in F and
\* nothing otherwise, the prefix becomes the candidate in both cases, and
\* the value returned for i is the sum of its awards over all orderings,
\* over n!.
C8_AwardsOnlyFeasibleCandidates ==
    /\ (sh.pc \in {"walk", "loop", "done"} /\ sh.step.player # -1) =>
           LET st == sh.step
               candidate == st.walked \cup {st.player}
           IN  /\ st.prefix = st.walked
               /\ sh.prefix = candidate
               /\ sh.phi =
                      [st.phi_before EXCEPT ![st.player] =
                          @ + IF candidate \in F
                              THEN game.values[candidate]
                                     - game.values[st.walked]
                              ELSE 0]
    /\ sh.pc = "done" =>
           \A i \in GrandCoalition :
               sh.result[i] = <<TotalAward(i), factorial(n)>>

\* C8 happens: a finished run in which a step completed an excluded
\* coalition and a later step of the walk was awarded.
C8_Witness ==
    /\ sh.pc = "done"
    /\ sh.step.player # -1
    /\ ~sh.step.previous_taken
    /\ sh.step.award # 0

\* C9 as stated: both coalitions whose values form a marginal contribution,
\* the candidate and the prefix, are in F.
C9_LookupsAreFeasible ==
    (sh.pc \in {"walk", "loop", "done"} /\ sh.step.player # -1
       /\ sh.step.looked_up) =>
        /\ sh.step.new_coalition \in F
        /\ sh.step.prefix \in F

\* C9 amended: the candidate whose value is looked up is in F; the prefix
\* whose value is looked up is the coalition of the players walked so far,
\* and it is in F exactly when it is empty or the candidate before it was
\* accepted.
C9_CandidateFeasiblePrefixWalked ==
    (sh.pc \in {"walk", "loop", "done"} /\ sh.step.player # -1
       /\ sh.step.looked_up) =>
        /\ sh.step.new_coalition \in F
        /\ sh.step.prefix = sh.step.walked
        /\ sh.step.prefix \in F <=>
               (sh.step.prefix = EMPTY_COALITION \/ sh.step.previous_taken)

\* C9 happens: a contribution was formed over a prefix that is not in F.
C9_Witness ==
    /\ sh.pc \in {"walk", "loop", "done"} /\ sh.step.player # -1
    /\ sh.step.looked_up
    /\ sh.step.prefix \notin F

(***************************************************************************)
(* Properties of the loader                                                *)
(***************************************************************************)

\* The predecessors the permission structure gives player i.
Prerequisites(i) ==
    IF i \in DOMAIN load.permission THEN load.permission[i] ELSE {}

\* The permission structure has no cycle: some ordering of the players puts
\* every predecessor before its player.
Acyclic ==
    \E p \in Orderings(load.n) :
        \A a \in DOMAIN p : \A b \in DOMAIN p :
            p[b] \in Prerequisites(p[a]) => b < a

\* C10: the family the loader generates from a permission structure, in any
\* index order, is exactly the set of coalitions that hold, with each of
\* their players, all of that player's predecessors.  Stated for the
\* structures without a cycle.
C10_PermissionFamilyIsExact ==
    (load.pc = "done" /\ Acyclic) =>
        /\ constructed
        /\ F = {C \in SUBSET (0 .. load.n - 1) :
                   \A i \in C : Prerequisites(i) \subseteq C}

=============================================================================
